---- MODULE Spec2Model ----
(***************************************************************************)
(* Byte-oriented Huffman codec of src/src/huffman/lib.rs.                  *)
(*                                                                         *)
(* Bytes are natural numbers, bits are 0 (false) and 1 (true), a Codeword  *)
(* (BitVec<u8>) is a sequence of bits.  A Node is the tuple <<"Leaf", c>>  *)
(* or <<"Root", left, right>>.  A HashMap is the set of its (key, value)   *)
(* pairs; its iteration order is an input of the operation that iterates   *)
(* it.  A BinaryHeap is the sequence of its entries in arrival order, and  *)
(* pop removes the greatest entry under the derived Ord.  A panic is a     *)
(* result whose ok field is FALSE and whose msg field is the message.      *)
(***************************************************************************)
EXTENDS Integers, Sequences, FiniteSets, TLC

VARIABLES pc, text, tree, code_table, filedata, decode_table, decoded, outcome

vars == <<pc, text, tree, code_table, filedata, decode_table, decoded, outcome>>

\* Size of the alphabet the inputs are drawn from.
NumSymbols == 4
\* Longest input text handed to huffman_encode.
MaxLen == 4
\* Longest leaf list and longest shape-bit sequence handed directly to
\* huffman_decode_tree.
MaxChars == 2
MaxShapeBits == 2
\* Most payload bits a caller loses when it frames the payload too short.
MaxDrop == 2

\* ASCII letters 'a', 'b', ...: every sequence of them is valid UTF-8.
Symbols == 97..(96 + NumSymbols)
Bit == {0, 1}

SeqsUpTo(S, n) == UNION {[1..k -> S] : k \in 0..n}

NoNode == <<>>
NoFileData == [characters |-> <<>>, tree |-> <<>>, text |-> <<>>]

PanicEmptyHeap == "heap is empty: input text is empty"
PanicNoCharacter == "not enough characters for this tree"
PanicUnwrapNone == "called Option::unwrap on a None value"
PanicNoCode == "character in text, but not in tree"
PanicUtf8 == "called Result::unwrap on an Err value: FromUtf8Error"

----------------------------------------------------------------------------
\* Node and its derived ordering

Leaf(c) == <<"Leaf", c>>
Root(l, r) == <<"Root", l, r>>
IsLeaf(n) == n[1] = "Leaf"
IsRoot(n) == n[1] = "Root"

IntCmp(a, b) == IF a < b THEN -1 ELSE IF a > b THEN 1 ELSE 0

\* #[derive(PartialOrd, Ord)] on Node: the variant declared first (Root) is
\* the smaller; two Roots compare by left then right; two Leaves by byte.
RECURSIVE NodeCmp(_, _)
NodeCmp(a, b) ==
    IF IsRoot(a) /\ IsRoot(b)
    THEN LET c == NodeCmp(a[2], b[2])
         IN  IF c # 0 THEN c ELSE NodeCmp(a[3], b[3])
    ELSE IF IsLeaf(a) /\ IsLeaf(b) THEN IntCmp(a[2], b[2])
    ELSE IF IsRoot(a) THEN -1 ELSE 1

\* A heap entry (Reverse(count), node) is the record [count, node]; Reverse
\* inverts the comparison of the counts, then the nodes decide.
Entry(count, node) == [count |-> count, node |-> node]

\* Slip: the counts compared without Reverse, so pop yields the largest count.
EntryCmpNoReverse(e, f) ==
    LET c == IntCmp(e.count, f.count)
    IN  IF c # 0 THEN c ELSE NodeCmp(e.node, f.node)

\* Slip: entries ordered by count alone, so equal counts compare equal.
EntryCmpCountOnly(e, f) == IntCmp(f.count, e.count)

EntryCmp(e, f) ==
    LET c == IntCmp(f.count, e.count)
    IN  IF c # 0 THEN c ELSE NodeCmp(e.node, f.node)

----------------------------------------------------------------------------
\* BinaryHeap as the sequence of its entries

\* Index of the greatest entry among heap[1..n]; the earlier one stays on a tie.
RECURSIVE MaxIdx(_, _)
MaxIdx(heap, n) ==
    IF n = 1 THEN 1
    ELSE LET best == MaxIdx(heap, n - 1)
         IN  IF EntryCmp(heap[n], heap[best]) > 0 THEN n ELSE best

RemoveAt(s, i) == SubSeq(s, 1, i - 1) \o SubSeq(s, i + 1, Len(s))

HeapPeek(heap) == heap[MaxIdx(heap, Len(heap))]
HeapRest(heap) == RemoveAt(heap, MaxIdx(heap, Len(heap)))
HeapPush(heap, e) == Append(heap, e)

----------------------------------------------------------------------------
\* frequency

Count(txt, c) == Cardinality({i \in 1..Len(txt) : txt[i] = c})
Distinct(txt) == {txt[i] : i \in 1..Len(txt)}

\* The iteration orders a HashMap with key set S can have.
RECURSIVE Orders(_)
Orders(S) ==
    IF S = {} THEN {<<>>}
    ELSE UNION {{<<c>> \o rest : rest \in Orders(S \ {c})} : c \in S}

\* Slip: every entry is inserted with count 1 and never incremented.
frequency_count_one(txt, order) ==
    [i \in 1..Len(order) |-> Entry(1, Leaf(order[i]))]

frequency(txt, order) ==
    [i \in 1..Len(order) |-> Entry(Count(txt, order[i]), Leaf(order[i]))]

----------------------------------------------------------------------------
\* huffman_tree

Ok(v) == [ok |-> TRUE, msg |-> "", val |-> v]
Panic(m) == [ok |-> FALSE, msg |-> m, val |-> <<>>]

\* The loop of huffman_tree: pop first, pop second, push their Root.
RECURSIVE huffman_tree_loop(_)
huffman_tree_loop(frequencies) ==
    IF Len(frequencies) = 0 THEN Panic(PanicEmptyHeap)
    ELSE LET first == HeapPeek(frequencies)
             rest == HeapRest(frequencies)
         IN  IF Len(rest) = 0 THEN Ok(first.node)
             ELSE LET second == HeapPeek(rest)
                      rest2 == HeapRest(rest)
                  IN  huffman_tree_loop(
                          HeapPush(rest2, Entry(second.count + first.count,
                                                Root(first.node, second.node))))

huffman_tree(txt, order) == huffman_tree_loop(frequency(txt, order))

----------------------------------------------------------------------------
\* HashMap as the set of its (key, value) pairs

MapInsert(m, k, v) == {p \in m : p[1] # k} \cup {<<k, v>>}
MapHas(m, k) == \E p \in m : p[1] = k
MapGet(m, k) == (CHOOSE p \in m : p[1] = k)[2]
MapKeys(m) == {p[1] : p \in m}

----------------------------------------------------------------------------
\* huffman_table

\* Slip: the right branch keeps the code of its parent.
RECURSIVE explore_branch_right_unmarked(_, _, _)
explore_branch_right_unmarked(table, node, code) ==
    IF IsLeaf(node) THEN MapInsert(table, node[2], code)
    ELSE explore_branch_right_unmarked(
             explore_branch_right_unmarked(table, node[2], Append(code, 0)),
             node[3], code)

RECURSIVE explore_branch(_, _, _)
explore_branch(table, node, code) ==
    IF IsLeaf(node) THEN MapInsert(table, node[2], code)
    ELSE explore_branch(explore_branch(table, node[2], Append(code, 0)),
                        node[3], Append(code, 1))

huffman_table(root) == explore_branch({}, root, <<>>)

----------------------------------------------------------------------------
\* huffman_encode_tree

\* acc is [characters, tree_encoding], the two vectors explore_tree appends to.
RECURSIVE explore_tree(_, _)
explore_tree(node, acc) ==
    IF IsRoot(node)
    THEN LET opened == [acc EXCEPT !.tree_encoding = Append(@, 0)]
             left == explore_tree(node[2], opened)
             closed == [left EXCEPT !.tree_encoding = Append(@, 1)]
         IN  explore_tree(node[3], closed)
    ELSE [acc EXCEPT !.characters = Append(@, node[2])]

huffman_encode_tree(root) ==
    explore_tree(root, [characters |-> <<>>, tree_encoding |-> <<>>])

----------------------------------------------------------------------------
\* huffman_encode_text

RECURSIVE encode_text_fold(_, _, _, _)
encode_text_fold(txt, table, i, acc) ==
    IF i > Len(txt) THEN Ok(acc)
    ELSE IF ~MapHas(table, txt[i]) THEN Panic(PanicNoCode)
    ELSE encode_text_fold(txt, table, i + 1, acc \o MapGet(table, txt[i]))

huffman_encode_text(txt, table) == encode_text_fold(txt, table, 1, <<>>)

----------------------------------------------------------------------------
\* huffman_encode

\* Slip: an empty text returns an empty FileData before the tree is built.
huffman_encode_empty_filedata(txt, order) ==
    IF txt = <<>>
    THEN Ok([tree |-> NoNode, code_table |-> {}, filedata |-> NoFileData])
    ELSE LET t == huffman_tree(txt, order)
             table == huffman_table(t.val)
             bits == huffman_encode_text(txt, table)
             ser == huffman_encode_tree(t.val)
         IN  Ok([tree |-> t.val,
                 code_table |-> table,
                 filedata |-> [characters |-> ser.characters,
                               tree |-> ser.tree_encoding,
                               text |-> bits.val]])

\* val is [tree, code_table, filedata]: the FileData returned and the two
\* locals it was computed from.
huffman_encode(txt, order) ==
    LET t == huffman_tree(txt, order)
    IN  IF ~t.ok THEN Panic(t.msg)
        ELSE LET table == huffman_table(t.val)
                 bits == huffman_encode_text(txt, table)
                 ser == huffman_encode_tree(t.val)
             IN  IF ~bits.ok THEN Panic(bits.msg)
                 ELSE Ok([tree |-> t.val,
                          code_table |-> table,
                          filedata |-> [characters |-> ser.characters,
                                        tree |-> ser.tree_encoding,
                                        text |-> bits.val]])

----------------------------------------------------------------------------
\* huffman_decode_tree

HasFalse(code) == \E j \in 1..Len(code) : code[j] = 0
LastFalse(code) == CHOOSE j \in 1..Len(code) :
                       code[j] = 0 /\ \A k \in (j + 1)..Len(code) : code[k] = 1

\* Slip: a single pop in place of the loop.
PopOncePush(code) == Append(SubSeq(code, 1, Len(code) - 1), 1)

\* `while code.pop().unwrap() {}` then `code.push(true)`, for a code that
\* holds a false bit.
PopToFalsePush(code) == Append(SubSeq(code, 1, LastFalse(code) - 1), 1)

\* i: next shape bit; k: next character of the iterator.
RECURSIVE decode_tree_loop(_, _, _, _, _, _)
decode_tree_loop(characters, shape, i, k, code, result) ==
    IF i > Len(shape)
    THEN IF k > Len(characters) THEN Panic(PanicNoCharacter)
         ELSE Ok(MapInsert(result, code, characters[k]))
    ELSE IF shape[i] = 1
    THEN IF k > Len(characters) THEN Panic(PanicNoCharacter)
         ELSE IF ~HasFalse(code) THEN Panic(PanicUnwrapNone)
         ELSE decode_tree_loop(characters, shape, i + 1, k + 1,
                               PopToFalsePush(code),
                               MapInsert(result, code, characters[k]))
    ELSE decode_tree_loop(characters, shape, i + 1, k, Append(code, 0), result)

huffman_decode_tree(characters, shape) ==
    decode_tree_loop(characters, shape, 1, 1, <<>>, {})

----------------------------------------------------------------------------
\* huffman_decode

\* String::from_utf8 on ASCII bytes; the alphabet of the model is ASCII.
FromUtf8(bytes) ==
    IF \A i \in 1..Len(bytes) : bytes[i] < 128 THEN Ok(bytes) ELSE Panic(PanicUtf8)

RECURSIVE decode_loop(_, _, _, _, _)
decode_loop(table, bits, i, code, bytes) ==
    IF i > Len(bits) THEN bytes
    ELSE LET pushed == Append(code, bits[i])
         IN  IF MapHas(table, pushed)
             THEN decode_loop(table, bits, i + 1, <<>>,
                              Append(bytes, MapGet(table, pushed)))
             ELSE decode_loop(table, bits, i + 1, pushed, bytes)

\* val is [decode_table, string].
huffman_decode(fd) ==
    LET dt == huffman_decode_tree(fd.characters, fd.tree)
    IN  IF ~dt.ok THEN Panic(dt.msg)
        ELSE LET str == FromUtf8(decode_loop(dt.val, fd.text, 1, <<>>, <<>>))
             IN  IF ~str.ok THEN Panic(str.msg)
                 ELSE Ok([decode_table |-> dt.val, string |-> str.val])

----------------------------------------------------------------------------
\* The calls a user of the module makes

\* Every full binary tree whose leaves are exactly the symbols of S, each once.
RECURSIVE AllTrees(_)
AllTrees(S) ==
    IF Cardinality(S) = 1 THEN {Leaf(c) : c \in S}
    ELSE UNION {{Root(l, r) : l \in AllTrees(A), r \in AllTrees(S \ A)} :
                   A \in (SUBSET S) \ {{}, S}}

Init ==
    /\ pc = "idle"
    /\ text = <<>>
    /\ tree = NoNode
    /\ code_table = {}
    /\ filedata = NoFileData
    /\ decode_table = {}
    /\ decoded = <<>>
    /\ outcome = "none"

\* huffman_encode(text); the HashMap of frequency iterates in any order.
Encode ==
    /\ pc = "idle"
    /\ \E txt \in SeqsUpTo(Symbols, MaxLen) :
         \E order \in Orders(Distinct(txt)) :
           LET r == huffman_encode(txt, order)
           IN  /\ text' = txt
               /\ outcome' = IF r.ok THEN "ok" ELSE r.msg
               /\ tree' = IF r.ok THEN r.val.tree ELSE NoNode
               /\ code_table' = IF r.ok THEN r.val.code_table ELSE {}
               /\ filedata' = IF r.ok THEN r.val.filedata ELSE NoFileData
    /\ pc' = "encoded"
    /\ UNCHANGED <<decode_table, decoded>>

\* The caller stores the FileData and reads it back with a payload bit count
\* that is too small: the last bits of the payload are lost.
Truncate ==
    /\ pc = "encoded"
    /\ outcome = "ok"
    /\ \E n \in 1..MaxDrop :
         /\ n <= Len(filedata.text)
         /\ filedata' = [filedata EXCEPT !.text = SubSeq(@, 1, Len(@) - n)]
    /\ pc' = "truncated"
    /\ UNCHANGED <<text, tree, code_table, decode_table, decoded, outcome>>

\* huffman_decode(&filedata)
Decode ==
    /\ pc \in {"encoded", "truncated"}
    /\ outcome = "ok"
    /\ LET r == huffman_decode(filedata)
       IN  /\ outcome' = IF r.ok THEN "ok" ELSE r.msg
           /\ decode_table' = IF r.ok THEN r.val.decode_table ELSE {}
           /\ decoded' = IF r.ok THEN r.val.string ELSE <<>>
    /\ pc' = IF pc = "encoded" THEN "decoded" ELSE "decoded_truncated"
    /\ UNCHANGED <<text, tree, code_table, filedata>>

\* huffman_encode_tree(&root) on any tree with distinct leaves
EncodeTree ==
    /\ pc = "idle"
    /\ \E S \in (SUBSET Symbols) \ {{}} :
         \E root \in AllTrees(S) :
           LET ser == huffman_encode_tree(root)
           IN  /\ tree' = root
               /\ filedata' = [characters |-> ser.characters,
                               tree |-> ser.tree_encoding,
                               text |-> <<>>]
    /\ pc' = "tree_encoded"
    /\ outcome' = "ok"
    /\ UNCHANGED <<text, code_table, decode_table, decoded>>

\* A leaf list and shape bits that come from elsewhere than huffman_encode_tree.
Receive ==
    /\ pc = "idle"
    /\ \E characters \in SeqsUpTo(Symbols, MaxChars) :
         \E shape \in SeqsUpTo(Bit, MaxShapeBits) :
           filedata' = [characters |-> characters, tree |-> shape, text |-> <<>>]
    /\ pc' = "received"
    /\ outcome' = "ok"
    /\ UNCHANGED <<text, tree, code_table, decode_table, decoded>>

\* huffman_decode_tree(&characters, &tree)
DecodeTree ==
    /\ pc \in {"tree_encoded", "received"}
    /\ LET r == huffman_decode_tree(filedata.characters, filedata.tree)
       IN  /\ outcome' = IF r.ok THEN "ok" ELSE r.msg
           /\ decode_table' = IF r.ok THEN r.val ELSE {}
    /\ pc' = IF pc = "tree_encoded" THEN "tree_decoded" ELSE "received_decoded"
    /\ UNCHANGED <<text, tree, code_table, filedata, decoded>>

Next == Encode \/ Truncate \/ Decode \/ EncodeTree \/ Receive \/ DecodeTree

Spec == Init /\ [][Next]_vars

----------------------------------------------------------------------------
\* Notions the properties are stated with

IsPrefix(u, v) == Len(u) <= Len(v) /\ SubSeq(v, 1, Len(u)) = u
IsProperPrefix(u, v) == Len(u) < Len(v) /\ IsPrefix(u, v)

\* Sum over the leaves of node of count * depth, node sitting at depth d;
\* cnt maps each byte to its count.
RECURSIVE Wepl(_, _, _)
Wepl(node, cnt, d) ==
    IF IsLeaf(node) THEN cnt[node[2]] * d
    ELSE Wepl(node[2], cnt, d + 1) + Wepl(node[3], cnt, d + 1)

Counts(txt) == [c \in Distinct(txt) |-> Count(txt, c)]

\* Number of input bytes under node.
RECURSIVE Weight(_, _)
Weight(node, txt) ==
    IF IsLeaf(node) THEN Count(txt, node[2])
    ELSE Weight(node[2], txt) + Weight(node[3], txt)

\* At every Root the left child is the entry the heap order removes first.
RECURSIVE LeftRemovedFirst(_, _)
LeftRemovedFirst(node, txt) ==
    IsRoot(node) =>
        /\ EntryCmp(Entry(Weight(node[2], txt), node[2]),
                    Entry(Weight(node[3], txt), node[3])) > 0
        /\ LeftRemovedFirst(node[2], txt)
        /\ LeftRemovedFirst(node[3], txt)

\* The (path, symbol) pairs of the leaves of node, 0 = left and 1 = right.
RECURSIVE Paths(_, _)
Paths(node, path) ==
    IF IsLeaf(node) THEN {<<path, node[2]>>}
    ELSE Paths(node[2], Append(path, 0)) \cup Paths(node[3], Append(path, 1))

Inverse(m) == {<<p[2], p[1]>> : p \in m}

\* 0-frames of the shape bits that no later 1 closes.
RECURSIVE OpenFrames(_, _, _)
OpenFrames(shape, i, open) ==
    IF i > Len(shape) THEN open
    ELSE IF shape[i] = 0 THEN OpenFrames(shape, i + 1, open + 1)
    ELSE OpenFrames(shape, i + 1, IF open > 0 THEN open - 1 ELSE 0)

\* Each 0 opens an Internal node; k Internal nodes take k + 1 leaves.
LeavesDemanded(shape) == Cardinality({i \in 1..Len(shape) : shape[i] = 0}) + 1

\* The accumulator of huffman_decode after the last payload bit.
RECURSIVE FinalAccumulator(_, _, _, _)
FinalAccumulator(table, bits, i, code) ==
    IF i > Len(bits) THEN code
    ELSE LET pushed == Append(code, bits[i])
         IN  FinalAccumulator(table, bits, i + 1,
                              IF MapHas(table, pushed) THEN <<>> ELSE pushed)

EncodedOk == pc = "encoded" /\ outcome = "ok"

----------------------------------------------------------------------------
\* Properties

\* C1: round trip: for every non-empty input x, huffman_decode of
\* huffman_encode(x) returns exactly x.
C1_RoundTrip ==
    pc = "decoded" => outcome = "ok" /\ decoded = text

\* C2: degenerate alphabet: for an input of n >= 1 copies of one byte the
\* encoding succeeds, the byte's codeword has length exactly 1, the payload
\* has n bits, and decoding returns the n bytes.
C2_DegenerateAlphabet ==
    /\ (pc \in {"encoded", "decoded"} /\ Cardinality(Distinct(text)) = 1) =>
          /\ outcome = "ok"
          /\ Len(MapGet(code_table, text[1])) = 1
          /\ Len(filedata.text) = Len(text)
    /\ (pc = "decoded" /\ Cardinality(Distinct(text)) = 1) => decoded = text

\* C3: truncated payload: when huffman_decode ends with a non-empty
\* accumulator that matches no codeword, it fails and returns no output.
C3_TruncatedPayload ==
    (/\ pc = "decoded_truncated"
     /\ LET dt == huffman_decode_tree(filedata.characters, filedata.tree)
            acc == FinalAccumulator(dt.val, filedata.text, 1, <<>>)
        IN  dt.ok /\ acc # <<>> /\ ~MapHas(dt.val, acc))
    => outcome # "ok" /\ decoded = <<>>

\* C4: corrupt tree: huffman_decode_tree fails, returning no table, when the
\* shape bits leave a 0-frame open, or demand more leaves than the leaf list
\* holds, or the leaf list holds more symbols than the shape bits consume.
C4_CorruptTree ==
    (/\ pc = "received_decoded"
     /\ \/ OpenFrames(filedata.tree, 1, 0) > 0
        \/ LeavesDemanded(filedata.tree) > Len(filedata.characters)
        \/ Len(filedata.characters) > LeavesDemanded(filedata.tree))
    => outcome # "ok" /\ decode_table = {}

\* C5: empty input: huffman_encode of a zero-length input ends in the
\* empty-input failure and returns no FileData.
C5_EmptyInput ==
    (pc = "encoded" /\ text = <<>>) => outcome = PanicEmptyHeap

C5_Witness == pc = "encoded" /\ text = <<>> /\ outcome # "ok"

\* C6: prefix-free: the code table of a non-empty input has exactly the
\* distinct input bytes as keys, and no codeword in it is a proper prefix of
\* another.
C6_PrefixFree ==
    EncodedOk =>
        /\ MapKeys(code_table) = Distinct(text)
        /\ Cardinality(code_table) = Cardinality(Distinct(text))
        /\ \A p, q \in code_table : ~IsProperPrefix(p[2], q[2])

C6_Witness ==
    /\ EncodedOk
    /\ Cardinality(code_table) = 3
    /\ \E p, q \in code_table : Len(p[2]) = 1 /\ Len(q[2]) = 2

\* C7: optimality: the tree of huffman_tree has the least weighted external
\* path length among all full binary trees over the distinct input bytes.
C7_Optimal ==
    EncodedOk =>
        LET cnt == Counts(text)
            cost == Wepl(tree, cnt, 0)
        IN  \A other \in AllTrees(Distinct(text)) : cost <= Wepl(other, cnt, 0)

C7_Witness ==
    /\ EncodedOk
    /\ Cardinality(Distinct(text)) >= 3
    /\ \E other \in AllTrees(Distinct(text)) :
           Wepl(tree, Counts(text), 0) < Wepl(other, Counts(text), 0)

\* C8: monotonic cost ordering: a byte that occurs strictly more often than
\* another has a codeword that is no longer.
C8_Monotonic ==
    EncodedOk =>
        \A a, b \in Distinct(text) :
            Count(text, a) > Count(text, b) =>
                Len(MapGet(code_table, a)) <= Len(MapGet(code_table, b))

C8_Witness ==
    /\ EncodedOk
    /\ \E a, b \in Distinct(text) :
           /\ Count(text, a) > Count(text, b)
           /\ Len(MapGet(code_table, a)) < Len(MapGet(code_table, b))

\* C9: deterministic tie-breaking: every iteration order of the frequency
\* map yields the same tree, and at every Root the left child is the entry
\* removed first under the one order of the heap.
C9_Deterministic ==
    EncodedOk =>
        /\ \A order \in Orders(Distinct(text)) :
               huffman_tree(text, order) = Ok(tree)
        /\ LeftRemovedFirst(tree, text)

\* The input "abcd" of test_huffman_tree_long and the tree it expects.
C9_Witness ==
    /\ EncodedOk
    /\ text = <<97, 98, 99, 100>>
    /\ tree = Root(Root(Leaf(100), Leaf(99)), Root(Leaf(98), Leaf(97)))

\* C10: tree-codec round trip: huffman_decode_tree of huffman_encode_tree(T)
\* is the inverse of huffman_table(T): each leaf's path mapped to its symbol.
C10_TreeCodec ==
    pc = "tree_decoded" =>
        /\ outcome = "ok"
        /\ decode_table = Inverse(huffman_table(tree))
        /\ decode_table = Paths(tree, <<>>)

C10_Witness ==
    /\ pc = "tree_decoded"
    /\ Cardinality(decode_table) = 3
    /\ IsRoot(tree) /\ IsRoot(tree[2])

====
